---------------------------- MODULE Spec2Model ----------------------------
(***************************************************************************)
(* A model of crumble (src/src/lib.rs): the MIME message parser            *)
(* Message::new, the recursive section parser Section::new and the header  *)
(* folder parse_headers.                                                   *)
(*                                                                         *)
(* Text is a sequence of bytes, an ASCII byte written as a one-character   *)
(* string; the one character of the input that is not ASCII is written as  *)
(* the two bytes of its UTF-8 encoding.  Offsets are byte offsets, 1-based  *)
(* here and 0-based in the source.                                         *)
(***************************************************************************)
EXTENDS Integers, Sequences, FiniteSets

----------------------------------------------------------------------------
(* Character classes used by the regular expressions of the source.        *)

UpperSeq ==
  <<"A","B","C","D","E","F","G","H","I","J","K","L","M",
    "N","O","P","Q","R","S","T","U","V","W","X","Y","Z">>

LowerSeq ==
  <<"a","b","c","d","e","f","g","h","i","j","k","l","m",
    "n","o","p","q","r","s","t","u","v","w","x","y","z">>

Upper == {UpperSeq[i] : i \in 1..26}

Lower == {LowerSeq[i] : i \in 1..26}

DigitSeq == <<"0","1","2","3","4","5","6","7","8","9">>

Digit == {DigitSeq[i] : i \in 1..10}

Punct ==
  {" ","!","\"","#","$","%","&","'","(",")","*","+",",","-",".","/",
   ":",";","<","=",">","?","@","[","\\","]","^","_","{","|","}","~"}

\* [0-9A-Za-z_\-]
KeyChar == Upper \cup Lower \cup Digit \cup {"_", "-"}

\* [[:print:]]: ASCII 0x20..0x7E (the grave accent, which a TLA+ string cannot
\* hold, is left out of the alphabet)
PrintChar == Upper \cup Lower \cup Digit \cup Punct

\* ("|')
QuoteChar == {"\"", "'"}

\* char::is_whitespace restricted to ASCII, as used by str::trim
WhiteSpace == {" ", "\t", "\n", "\r", "\f"}

\* the two bytes of U+00E9 in UTF-8, a lead byte and a continuation byte
Byte_C3 == "xC3"

Byte_A9 == "xA9"

WideChar == <<Byte_C3, Byte_A9>>

\* str::is_char_boundary: the slice offset i (the 0-based index i - 1) does
\* not fall inside a character
is_char_boundary(s, i) ==
  /\ i >= 1
  /\ i <= Len(s) + 1
  /\ i <= Len(s) => s[i] # Byte_A9

\* char::to_lowercase on ASCII
LowerChar(c) ==
  IF c \in Upper THEN LowerSeq[CHOOSE i \in 1..26 : UpperSeq[i] = c] ELSE c

\* str::to_lowercase
to_lowercase(s) == [i \in 1..Len(s) |-> LowerChar(s[i])]

----------------------------------------------------------------------------
(* String primitives of the standard library.                              *)

SetMin(S) == CHOOSE x \in S : \A y \in S : x <= y

\* the greatest element, found as the least of the negated elements
SetMax(S) == 0 - SetMin({0 - x : x \in S})

\* s[i..] starts with the literal p (i is 1-based); the first byte is
\* compared before the rest
StartsAt(s, i, p) ==
  /\ i >= 1
  /\ i + Len(p) - 1 <= Len(s)
  /\ Len(p) > 0 => s[i] = p[1]
  /\ SubSeq(s, i, i + Len(p) - 1) = p

\* offset of the first occurrence of the literal p in s at or after i; 0 if none
FindFrom(s, i, p) ==
  LET hits == {j \in i..(Len(s) - Len(p) + 1) :
                  s[j] = p[1] /\ SubSeq(s, j, j + Len(p) - 1) = p}
  IN  IF hits = {} THEN 0 ELSE SetMin(hits)

\* s[i..] as a sequence (empty when i = Len(s) + 1)
Tail_from(s, i) == SubSeq(s, i, Len(s))

\* a trim that removes nothing
trim_none(s) == s

\* str::trim
trim(s) ==
  LET keep == {i \in 1..Len(s) : s[i] \notin WhiteSpace}
  IN  IF keep = {} THEN <<>>
      ELSE SubSeq(s, SetMin(keep), SetMax(keep))

\* str::split(pat) for a non-empty literal pattern: the fragments between the
\* non-overlapping occurrences of pat found left to right
RECURSIVE split(_, _)
split(s, pat) ==
  LET at == FindFrom(s, 1, pat)
  IN  IF at = 0 THEN <<s>>
      ELSE <<SubSeq(s, 1, at - 1)>> \o split(Tail_from(s, at + Len(pat)), pat)

----------------------------------------------------------------------------
(* Literals of the regular expressions.                                     *)

Lit_Content_Type == <<"C","o","n","t","e","n","t","-","T","y","p","e">>

Lit_Content_type == <<"C","o","n","t","e","n","t","-","t","y","p","e">>

Lit_content_type == <<"c","o","n","t","e","n","t","-","t","y","p","e">>

Lit_multipart == <<"m","u","l","t","i","p","a","r","t">>

Lit_boundary == <<"b","o","u","n","d","a","r","y">>

Lit_Boundary == <<"B","o","u","n","d","a","r","y">>

\* the leftover of a closing delimiter that Section::new turns into Empty
Lit_terminator == <<"-", "-", "\n">>

\* (Content-Type|Content-type|content-type)
ContentTypeKeys == {Lit_Content_Type, Lit_Content_type, Lit_content_type}

\* (boundary|Boundary)
BoundaryKeys == {Lit_boundary, Lit_Boundary}

\* the bytes a match of these alternations can start with; a scan looks at
\* the first byte before it tries the alternatives
ContentTypeFirst == {k[1] : k \in ContentTypeKeys}

BoundaryFirst == {k[1] : k \in BoundaryKeys}

\* the number of leading bytes has_headers and has_boundary look at
WindowLen == 3000

----------------------------------------------------------------------------
(* Values: Header, Section, Error, and Result with a panic as a third      *)
(* outcome (an out-of-range index or slice unwinds the whole call).        *)

Header_new(key, value) == [key |-> key, value |-> value]

Plain(bytes) == [kind |-> "Plain", headers |-> <<>>, body |-> <<>>, bytes |-> bytes]

Multipart(headers, body) ==
  [kind |-> "Multipart", headers |-> headers, body |-> body, bytes |-> <<>>]

Empty == [kind |-> "Empty", headers |-> <<>>, body |-> <<>>, bytes |-> <<>>]

\* placeholder carried by a result that is not Ok
NoSection == [kind |-> "None", headers |-> <<>>, body |-> <<>>, bytes |-> <<>>]

Ok(v) == [tag |-> "Ok", err |-> "None", val |-> v]

Err(e, none) == [tag |-> "Err", err |-> e, val |-> none]

Panic(none) == [tag |-> "Panic", err |-> "None", val |-> none]

\* the `?` operator and unwinding: a failed result re-typed for the caller
Propagate(r, none) == [tag |-> r.tag, err |-> r.err, val |-> none]

NoMessage == [headers |-> <<>>, sections |-> <<>>]

Message(headers, sections) == [headers |-> headers, sections |-> sections]

----------------------------------------------------------------------------
(* The regular expressions, each modelled by the matches it finds.         *)

\* r"(Content-Type|Content-type|content-type): .+?" is_match: the key, a colon,
\* a space and one more character that is not a line feed
RE_headers_is_match(s) ==
  \E i \in {j \in 1..Len(s) : s[j] \in ContentTypeFirst} : \E k \in ContentTypeKeys :
     /\ StartsAt(s, i, k \o <<":", " ">>)
     /\ i + Len(k) + 2 <= Len(s)
     /\ s[i + Len(k) + 2] # "\n"

\* r"(boundary|Boundary)=.+?" is_match
RE_boundary_is_match(s) ==
  \E i \in {j \in 1..Len(s) : s[j] \in BoundaryFirst} : \E k \in BoundaryKeys :
     /\ StartsAt(s, i, k \o <<"=">>)
     /\ i + Len(k) + 1 <= Len(s)
     /\ s[i + Len(k) + 1] # "\n"

\* r"(Content-Type|Content-type|content-type): multipart.+?" is_match
RE_multipart_is_match(s) ==
  \E i \in {j \in 1..Len(s) : s[j] \in ContentTypeFirst} : \E k \in ContentTypeKeys :
     /\ StartsAt(s, i, k \o <<":", " ">> \o Lit_multipart)
     /\ i + Len(k) + 2 + Len(Lit_multipart) <= Len(s)
     /\ s[i + Len(k) + 2 + Len(Lit_multipart)] # "\n"

\* For the capture regex started at offset i: the offset of the closing quote
\* of the shortest match, 0 if the regex does not match at i.  The value is
\* [[:print:]]+? (at least one printable character, a quote included), so the
\* closing quote is the first quote after the first value character with only
\* printable characters before it.
CaptureEnd(s, i) ==
  IF ~ ( /\ \E k \in BoundaryKeys : StartsAt(s, i, k \o <<"=">>)
         /\ i + 10 <= Len(s)
         /\ s[i + 9] \in QuoteChar
         /\ s[i + 10] \in PrintChar )
  THEN 0
  ELSE LET ends == {e \in (i + 11)..Len(s) :
                      /\ s[e] \in QuoteChar
                      /\ \A k \in (i + 11)..(e - 1) : s[k] \in PrintChar}
       IN  IF ends = {} THEN 0 ELSE SetMin(ends)

\* the capture taken from the last match instead of the leftmost one
RE_capture_boundary_last(s) ==
  LET starts == {i \in 1..Len(s) : s[i] \in BoundaryFirst /\ CaptureEnd(s, i) # 0}
  IN  IF starts = {} THEN <<>>
      ELSE LET i == CHOOSE x \in starts : \A y \in starts : y <= x
           IN  SubSeq(s, i + 10, CaptureEnd(s, i) - 1)

\* r#"(boundary|Boundary)=("|')(?P<boundary>[[:print:]]+?)("|')"# captures:
\* the named group of the leftmost match, <<>> when nothing matches
RE_capture_boundary(s) ==
  LET starts == {i \in 1..Len(s) : s[i] \in BoundaryFirst /\ CaptureEnd(s, i) # 0}
  IN  IF starts = {} THEN <<>>
      ELSE LET i == SetMin(starts)
           IN  SubSeq(s, i + 10, CaptureEnd(s, i) - 1)

\* length of the run of the character c that starts at offset i
RECURSIVE RunLen(_, _, _)
RunLen(s, i, c) ==
  IF i <= Len(s) /\ s[i] = c THEN 1 + RunLen(s, i + 1, c) ELSE 0

\* r"\n{2,}|\r{2,}" splitn(text, 2): the text before and after the leftmost
\* run of two or more line feeds or of two or more carriage returns; the text
\* alone when there is no such run (regex 1.3.2 and later)
RE_blank_splitn2(s) ==
  LET starts == {i \in 1..(Len(s) - 1) : s[i] = s[i + 1] /\ s[i] \in {"\n", "\r"}}
  IN  IF starts = {} THEN <<s>>
      ELSE LET i == SetMin(starts)
               n == RunLen(s, i, s[i])
           IN  <<SubSeq(s, 1, i - 1), Tail_from(s, i + n)>>

\* r"(?m)^[0-9A-Za-z_\-]+:" find_iter: for each match its start offset and the
\* offset of its colon, in order.  A match starts at a line start (offset 1 or
\* after a line feed), so matches never overlap.
KeyColon(s, i) ==
  LET stops == {j \in i..Len(s) : s[j] \notin KeyChar}
  IN  IF stops = {} THEN 0
      ELSE LET j == SetMin(stops)
           IN  IF j > i /\ s[j] = ":" THEN j ELSE 0

\* key starts when the regex also accepts a key after a space
KeyStarts_after_space(s) ==
  {i \in 1..Len(s) : (i = 1 \/ s[i - 1] \in {"\n", " "}) /\ KeyColon(s, i) # 0}

KeyStarts(s) ==
  {i \in 1..Len(s) : (i = 1 \/ s[i - 1] = "\n") /\ KeyColon(s, i) # 0}

RECURSIVE SortedSeq(_)
SortedSeq(S) ==
  IF S = {} THEN <<>> ELSE <<SetMin(S)>> \o SortedSeq(S \ {SetMin(S)})

header_indices(s) ==
  LET starts == SortedSeq(KeyStarts(s))
  IN  [n \in 1..Len(starts) |-> <<starts[n], KeyColon(s, starts[n])>>]

----------------------------------------------------------------------------
(* parse_headers                                                            *)

\* The value of the header whose colon is at offset c (0-based header.1 =
\* c - 1): the slice from 0-based header.1 + 2, which is offset c + 2 here,
\* to the next key or to the end of the block.
parse_headers(raw_headers) ==
  LET idx == header_indices(raw_headers)
      n == Len(idx)
      key(k) == to_lowercase(trim(SubSeq(raw_headers, idx[k][1], idx[k][2] - 1)))
      value(k) ==
        IF k < n
        THEN trim(SubSeq(raw_headers, idx[k][2] + 2, idx[k + 1][1] - 1))
        ELSE trim(Tail_from(raw_headers, idx[k][2] + 2))
      \* a slice whose start is past its end, past the end of the text, or
      \* inside a character
      out_of_range(k) ==
        \/ ~ is_char_boundary(raw_headers, idx[k][2] + 2)
        \/ k < n /\ idx[k][2] + 2 > idx[k + 1][1]
  IN  IF \E k \in 1..n : out_of_range(k)
      THEN Panic(<<>>)
      ELSE Ok([k \in 1..n |-> Header_new(key(k), value(k))])

\* impl ToString for Header: "{}: {}"
Header_to_string(h) == h.key \o <<":", " ">> \o h.value

\* impl ToString for Vec<Header>: the headers' strings joined by "\n"
RECURSIVE Headers_to_string(_)
Headers_to_string(hs) ==
  IF Len(hs) = 0 THEN <<>>
  ELSE IF Len(hs) = 1 THEN Header_to_string(hs[1])
  ELSE Header_to_string(hs[1]) \o <<"\n">> \o Headers_to_string(Tail(hs))

----------------------------------------------------------------------------
(* Section                                                                  *)

\* the text has_headers and has_boundary look at
Window(raw_message) ==
  IF Len(raw_message) > WindowLen THEN SubSeq(raw_message, 1, WindowLen)
  ELSE raw_message

\* has_headers with a regex that knows the spelling Content-Type only
has_headers_one_spelling(raw_message) ==
  \E i \in {j \in 1..Len(Window(raw_message)) : Window(raw_message)[j] = "C"} :
     /\ StartsAt(Window(raw_message), i, Lit_Content_Type \o <<":", " ">>)
     /\ i + 14 <= Len(Window(raw_message))
     /\ Window(raw_message)[i + 14] # "\n"

\* &raw_message[0..3000] of a longer text whose byte 3000 is inside a
\* character: the slice panics in has_headers, before any match is tried
Window_panics(raw_message) ==
  Len(raw_message) > WindowLen /\ ~ is_char_boundary(raw_message, WindowLen + 1)

has_headers(raw_message) == RE_headers_is_match(Window(raw_message))

has_boundary(raw_message) == RE_boundary_is_match(Window(raw_message))

RECURSIVE Section_new(_)
RECURSIVE Section_parse_multipart(_)

\* the first failure among the results rs (the loop stops there), or the
\* sections of all of them
Collect(rs) ==
  LET bad == {i \in 1..Len(rs) : rs[i].tag # "Ok"}
  IN  IF bad # {} THEN Propagate(rs[SetMin(bad)], <<>>)
      ELSE Ok([i \in 1..Len(rs) |-> rs[i].val])

Section_parse_multipart(raw_section) ==
  IF has_boundary(raw_section)
  THEN LET boundary == RE_capture_boundary(raw_section)
       IN  IF Len(boundary) = 0 THEN Err("ParseError", NoSection)
           ELSE LET raw_sections == split(raw_section, <<"-", "-">> \o boundary)
                    headers == parse_headers(raw_sections[1])
                    \* &raw_sections[1..raw_sections.len() - 1]
                    inner == SubSeq(raw_sections, 2, Len(raw_sections) - 1)
                    sections == Collect([i \in 1..Len(inner) |-> Section_new(inner[i])])
                IN  IF headers.tag # "Ok" THEN Propagate(headers, NoSection)
                    ELSE IF Len(raw_sections) < 2 THEN Panic(NoSection)
                    ELSE IF sections.tag # "Ok" THEN Propagate(sections, NoSection)
                    ELSE Ok(Multipart(headers.val, sections.val))
  ELSE LET splitted == RE_blank_splitn2(raw_section)
           headers == parse_headers(splitted[1])
           body == Section_new(splitted[2])
       IN  IF headers.tag # "Ok" THEN Propagate(headers, NoSection)
           \* split[1] of a one-element vector
           ELSE IF Len(splitted) < 2 THEN Panic(NoSection)
           ELSE IF body.tag # "Ok" THEN Propagate(body, NoSection)
           ELSE Ok(Multipart(headers.val, <<body.val>>))

Section_new(raw_section) ==
  IF raw_section = Lit_terminator THEN Ok(Empty)
  ELSE IF Window_panics(raw_section) THEN Panic(NoSection)
  ELSE IF has_headers(raw_section) THEN Section_parse_multipart(raw_section)
  ELSE Ok(Plain(raw_section))

----------------------------------------------------------------------------
(* Message                                                                  *)

is_multipart(raw_message) == RE_multipart_is_match(raw_message)

\* Message::parse_plain without the test for an empty fragment
Message_parse_plain_unchecked(raw_message) ==
  LET splitted == RE_blank_splitn2(raw_message)
  IN  IF Len(splitted) # 2
      THEN Err("InvalidString", NoMessage)
      ELSE LET headers == parse_headers(splitted[1])
               section == Section_new(splitted[2])
           IN  IF headers.tag # "Ok" THEN Propagate(headers, NoMessage)
               ELSE IF section.tag # "Ok" THEN Propagate(section, NoMessage)
               ELSE Ok(Message(headers.val, <<section.val>>))

Message_parse_plain(raw_message) ==
  LET splitted == RE_blank_splitn2(raw_message)
  IN  IF Len(splitted) # 2 \/ Len(splitted[1]) = 0 \/ Len(splitted[2]) = 0
      THEN Err("InvalidString", NoMessage)
      ELSE LET headers == parse_headers(splitted[1])
               section == Section_new(splitted[2])
           IN  IF headers.tag # "Ok" THEN Propagate(headers, NoMessage)
               ELSE IF section.tag # "Ok" THEN Propagate(section, NoMessage)
               ELSE Ok(Message(headers.val, <<section.val>>))

\* Message::parse_multipart dropping the last fragment, as the nested branch
\* of Section::parse_multipart does
Message_parse_multipart_drop_tail(raw_message) ==
  LET b == RE_capture_boundary(raw_message)
  IN  IF Len(b) = 0 THEN Err("InvalidString", NoMessage)
      ELSE LET raw_parts == split(raw_message, <<"-", "-">> \o b)
               headers == parse_headers(raw_parts[1])
               parts == SubSeq(raw_parts, 2, Len(raw_parts) - 1)
               sections == Collect([i \in 1..Len(parts) |-> Section_new(parts[i])])
           IN  IF headers.tag # "Ok" THEN Propagate(headers, NoMessage)
               ELSE IF sections.tag # "Ok" THEN Propagate(sections, NoMessage)
               ELSE Ok(Message(headers.val, sections.val))

\* Message::parse_multipart reporting a missing boundary as Section does
Message_parse_multipart_parse_error(raw_message) ==
  LET b == RE_capture_boundary(raw_message)
  IN  IF Len(b) = 0 THEN Err("ParseError", NoMessage)
      ELSE LET raw_parts == split(raw_message, <<"-", "-">> \o b)
               headers == parse_headers(raw_parts[1])
               parts == Tail_from(raw_parts, 2)
               sections == Collect([i \in 1..Len(parts) |-> Section_new(parts[i])])
           IN  IF headers.tag # "Ok" THEN Propagate(headers, NoMessage)
               ELSE IF sections.tag # "Ok" THEN Propagate(sections, NoMessage)
               ELSE Ok(Message(headers.val, sections.val))

Message_parse_multipart(raw_message) ==
  LET b == RE_capture_boundary(raw_message)
  IN  IF Len(b) = 0 THEN Err("InvalidString", NoMessage)
      ELSE LET raw_parts == split(raw_message, <<"-", "-">> \o b)
               headers == parse_headers(raw_parts[1])
               \* &raw_parts[1..raw_parts.len()]
               parts == Tail_from(raw_parts, 2)
               sections == Collect([i \in 1..Len(parts) |-> Section_new(parts[i])])
           IN  IF headers.tag # "Ok" THEN Propagate(headers, NoMessage)
               ELSE IF sections.tag # "Ok" THEN Propagate(sections, NoMessage)
               ELSE Ok(Message(headers.val, sections.val))

Message_new(raw_message) ==
  IF is_multipart(raw_message) THEN Message_parse_multipart(raw_message)
  ELSE Message_parse_plain(raw_message)

----------------------------------------------------------------------------
(* The callers.  A caller assembles a text from pieces and hands it once   *)
(* to one of the entry points; the outcome of the call is recorded.        *)

VARIABLES
  raw,       \* the text assembled so far, then the argument of the call
  pieces,    \* how many pieces the text was assembled from
  pc,        \* "build" while assembling, "done" after the call
  call,      \* the entry point called: "Message", "Section", "Headers"
  message,   \* the outcome of Message::new
  section,   \* the outcome of Section::new
  headers,   \* the outcome of parse_headers
  expect,    \* what the caller wrote the text to mean (its reference value)
  used,      \* the boundaries of the text, innermost first
  detected   \* the outcome of has_headers or has_boundary

vars ==
  <<raw, pieces, pc, call, message, section, headers, expect, used, detected>>

\* outcomes before any call
NotCalled(none) == [tag |-> "None", err |-> "None", val |-> none]

\* the longest text a caller assembles, in pieces
MaxPieces == 5

\* pieces of plain documents: a header line, a key whose colon ends the
\* line, a line feed, a blank line, body text, a space, a content-type
\* header line
Piece_To == <<"T", "o", ":", " ", "b">>

Piece_Cc == <<"C", "c", ":">>

Piece_nl == <<"\n">>

Piece_blank == <<"\n", "\n">>

Piece_b == <<"b">>

Piece_sp == <<" ">>

Piece_ct == Lit_content_type \o <<":", " ", "t">>

PlainPieces ==
  {Piece_To, Piece_Cc, Piece_nl, Piece_blank, Piece_b, Piece_sp, Piece_ct}

Start ==
  /\ raw = <<>>
  /\ pieces = 0
  /\ pc = "build"
  /\ call = "None"
  /\ message = NotCalled(NoMessage)
  /\ section = NotCalled(NoSection)
  /\ headers = NotCalled(<<>>)
  /\ expect = <<>>
  /\ used = <<>>
  /\ detected = NotCalled(FALSE)

AppendPiece(S) ==
  /\ pc = "build"
  /\ pieces < MaxPieces
  /\ \E p \in S : raw' = raw \o p
  /\ pieces' = pieces + 1
  /\ UNCHANGED <<pc, call, message, section, headers, expect, used, detected>>

CallMessageNew ==
  /\ pc = "build"
  /\ pc' = "done"
  /\ call' = "Message"
  /\ message' = Message_new(raw)
  /\ UNCHANGED <<raw, pieces, section, headers, expect, used, detected>>

CallSectionNew ==
  /\ pc = "build"
  /\ pc' = "done"
  /\ call' = "Section"
  /\ section' = Section_new(raw)
  /\ UNCHANGED <<raw, pieces, message, headers, expect, used, detected>>

CallParseHeaders ==
  /\ pc = "build"
  /\ pc' = "done"
  /\ call' = "Headers"
  /\ headers' = parse_headers(raw)
  /\ UNCHANGED <<raw, pieces, message, section, expect, used, detected>>

AppendPlain == AppendPiece(PlainPieces)

Init == Start

Next == AppendPlain \/ CallMessageNew \/ CallSectionNew \/ CallParseHeaders

Spec == Init /\ [][Next]_vars

----------------------------------------------------------------------------
(* Callers of multipart documents: the text starts with a top-level header *)
(* that declares a multipart content type, with its boundary quoted, not   *)
(* quoted or missing, and goes on with delimiters and parts.               *)

Lit_multipart_header ==
  Lit_Content_Type \o <<":", " ">> \o Lit_multipart \o <<"/", "m">>

Head_quoted ==
  Lit_multipart_header \o <<";", " ">> \o Lit_boundary
     \o <<"=", "\"", "X", "\"", "\n", "\n">>

Head_unquoted ==
  Lit_multipart_header \o <<";", " ">> \o Lit_boundary \o <<"=", "X", "\n", "\n">>

Head_bare == Lit_multipart_header \o <<"\n", "\n">>

MultipartHeads == {Head_quoted, Head_unquoted, Head_bare}

\* the delimiter of boundary X
Piece_delim == <<"-", "-", "X">>

\* a part with its own header, a blank line and a body
Piece_part == <<"\n">> \o Piece_ct \o <<"\n", "\n", "b", "\n">>

Piece_dashes == <<"-", "-">>

MultipartPieces == {Piece_delim, Piece_part, Piece_dashes, Piece_nl, Piece_b}

StartMultipart ==
  /\ raw \in MultipartHeads
  /\ pieces = 0
  /\ pc = "build"
  /\ call = "None"
  /\ message = NotCalled(NoMessage)
  /\ section = NotCalled(NoSection)
  /\ headers = NotCalled(<<>>)
  /\ expect = <<>>
  /\ used = <<>>
  /\ detected = NotCalled(FALSE)

AppendMultipart == AppendPiece(MultipartPieces)

NextMultipart == AppendMultipart \/ CallMessageNew \/ CallSectionNew

SpecMultipart == StartMultipart /\ [][NextMultipart]_vars

----------------------------------------------------------------------------
(* The caller of the multipart test: a top-level header declaring          *)
(* multipart/mixed with boundary "X", then two parts, each a delimiter, a  *)
(* content-type: text/plain header, a blank line and a body, then nothing  *)
(* or the closing delimiter.  The caller keeps the reference sections.     *)

Lit_text_plain == <<"t", "e", "x", "t", "/", "p", "l", "a", "i", "n">>

Lit_mixed_value ==
  Lit_multipart \o <<"/", "m", "i", "x", "e", "d", ";", " ">> \o Lit_boundary
     \o <<"=", "\"", "X", "\"">>

Head_scenario == Lit_Content_Type \o <<":", " ">> \o Lit_mixed_value \o <<"\n", "\n">>

\* the parts of the scenario
ScenarioParts == 2

\* a part's header lines: the content type alone, or followed by a second
\* header folded over two lines
PartHeader_plain == Lit_content_type \o <<":", " ">> \o Lit_text_plain

PartHeader_folded == PartHeader_plain \o <<"\n", "x", "-", "a", ":", " ", "b", ";", "\n", " ", "c">>

PartHeaders == {PartHeader_plain, PartHeader_folded}

\* the headers a part's header lines stand for
PartHeadersMeant(h) ==
  IF h = PartHeader_plain
  THEN <<Header_new(Lit_content_type, Lit_text_plain)>>
  ELSE <<Header_new(Lit_content_type, Lit_text_plain),
         Header_new(<<"x", "-", "a">>, <<"b", ";", "\n", " ", "c">>)>>

\* bodies: a word, two paragraphs, two dashes, a word with a colon
PartBodies ==
  {<<"a">>, <<"a", " ", "b", "\n", "\n", "c">>, <<"-", "-">>, <<"a", ":">>}

\* what may follow the last part
Closings == {<<>>, <<"-", "-", "X", "-", "-">>, <<"-", "-", "X", "-", "-", "\n">>}

StartScenario ==
  /\ raw = Head_scenario
  /\ pieces = 0
  /\ pc = "parts"
  /\ call = "None"
  /\ message = NotCalled(NoMessage)
  /\ section = NotCalled(NoSection)
  /\ headers = NotCalled(<<>>)
  /\ expect = <<>>
  /\ used = <<>>
  /\ detected = NotCalled(FALSE)

AddPart ==
  /\ pc = "parts"
  /\ pieces < ScenarioParts
  /\ \E h \in PartHeaders : \E b \in PartBodies :
        /\ raw' = raw \o Piece_delim \o <<"\n">> \o h \o <<"\n", "\n">> \o b \o <<"\n">>
        /\ expect' = Append(expect,
              Multipart(PartHeadersMeant(h),
                        <<IF b = <<"-", "-">> THEN Empty ELSE Plain(b \o <<"\n">>)>>))
  /\ pieces' = pieces + 1
  /\ UNCHANGED <<pc, call, message, section, headers, used, detected>>

Close ==
  /\ pc = "parts"
  /\ pieces = ScenarioParts
  /\ \E c \in Closings :
        /\ raw' = raw \o c
        /\ expect' = IF c = <<>> THEN expect
                     ELSE IF c[Len(c)] = "\n" THEN Append(expect, Empty)
                     ELSE Append(expect, Plain(<<"-", "-">>))
  /\ pc' = "build"
  /\ UNCHANGED <<pieces, call, message, section, headers, used, detected>>

NextScenario == AddPart \/ Close \/ CallMessageNew

SpecScenario == StartScenario /\ [][NextScenario]_vars

----------------------------------------------------------------------------
(* The caller of the nested test: starting from a leaf part, the text is   *)
(* wrapped level by level into a multipart container that declares a       *)
(* boundary not used so far, delimits the wrapped part with it, may add a  *)
(* sibling leaf part before or after, and ends with the closing delimiter. *)
(* The caller keeps the reference section of the text.                     *)

\* the deepest nesting a caller builds
MaxDepth == 4

\* a boundary of its own for each level, the top-level boundary of a message,
\* and two boundaries, one the start of the other, that any level may take
LevelBoundary(level) == <<"L", DigitSeq[level + 1]>>

TopBoundary == <<"T">>

SharedBoundaries == {<<"A">>, <<"A", "B">>}

Unused(b) == \A i \in 1..Len(used) : used[i] # b

\* a leaf part as it stands between two delimiters
LeafPart == <<"\n">> \o Piece_ct \o <<"\n", "\n", "b", "\n">>

LeafMeant == Multipart(<<Header_new(Lit_content_type, <<"t">>)>>, <<Plain(<<"b", "\n">>)>>)

\* multipart/m; boundary="<b>"
ContainerValue(b) ==
  Lit_multipart \o <<"/", "m", ";", " ">> \o Lit_boundary \o <<"=", "\"">> \o b \o <<"\"">>

ContainerHead(b) ==
  <<"\n">> \o Lit_Content_Type \o <<":", " ">> \o ContainerValue(b) \o <<"\n", "\n">>

Delim(b) == <<"-", "-">> \o b

Closing(b) == Delim(b) \o <<"-", "-", "\n">>

Layouts == {"alone", "leaf-first", "leaf-last"}

StartNested ==
  /\ raw = LeafPart
  /\ pieces = 0
  /\ pc = "build"
  /\ call = "None"
  /\ message = NotCalled(NoMessage)
  /\ section = NotCalled(NoSection)
  /\ headers = NotCalled(<<>>)
  /\ expect = LeafMeant
  /\ used = <<>>
  /\ detected = NotCalled(FALSE)

Wrap ==
  /\ pc = "build"
  /\ pieces < MaxDepth
  /\ \E b \in SharedBoundaries \cup {LevelBoundary(pieces + 1)} : \E layout \in Layouts :
        /\ Unused(b)
        /\ raw' = ContainerHead(b)
                    \o (IF layout = "leaf-first" THEN Delim(b) \o LeafPart ELSE <<>>)
                    \o Delim(b) \o raw
                    \o (IF layout = "leaf-last" THEN Delim(b) \o LeafPart ELSE <<>>)
                    \o Closing(b)
        /\ expect' = Multipart(<<Header_new(Lit_content_type, ContainerValue(b))>>,
                         IF layout = "leaf-first" THEN <<LeafMeant, expect>>
                         ELSE IF layout = "leaf-last" THEN <<expect, LeafMeant>>
                         ELSE <<expect>>)
        /\ used' = Append(used, b)
  /\ pieces' = pieces + 1
  /\ UNCHANGED <<pc, call, message, section, headers, detected>>

\* the text sent as the only part of a message with a top-level boundary
CallMessageNewNested ==
  /\ pc = "build"
  /\ pieces > 0
  /\ \E b \in SharedBoundaries \cup {TopBoundary} :
        /\ Unused(b)
        /\ raw' = SubSeq(ContainerHead(b), 2, Len(ContainerHead(b)))
                    \o Delim(b) \o raw \o Closing(b)
        /\ used' = Append(used, b)
  /\ message' = Message_new(raw')
  /\ pc' = "done"
  /\ call' = "Message"
  /\ UNCHANGED <<pieces, section, headers, expect, detected>>

NextNested == Wrap \/ CallSectionNew \/ CallMessageNewNested

SpecNested == StartNested /\ [][NextNested]_vars

----------------------------------------------------------------------------
(* What the documentation says of a text, stated without the parser.       *)

ContainsLit(s, lit) == \E i \in 1..Len(s) : StartsAt(s, i, lit)

\* offsets at which a blank-line separator (two line feeds, or two carriage
\* returns) starts
SeparatorStarts(s) ==
  {i \in 1..(Len(s) - 1) : s[i] = s[i + 1] /\ s[i] \in {"\n", "\r"}}

HasSeparator(s) == SeparatorStarts(s) # {}

\* the text before the first separator
HeaderBlockOf(s) == SubSeq(s, 1, SetMin(SeparatorStarts(s)) - 1)

\* the text after the first separator, the separator being the whole run of
\* the repeated character
BodyOf(s) ==
  LET i == SetMin(SeparatorStarts(s))
      rest == {j \in i..Len(s) : s[j] # s[i]}
  IN  IF rest = {} THEN <<>> ELSE Tail_from(s, SetMin(rest))

\* a header block, a blank line, a body, and no multipart content type
WellFormedPlain(s) ==
  /\ HasSeparator(s)
  /\ HeaderBlockOf(s) # <<>>
  /\ BodyOf(s) # <<>>
  /\ \A k \in ContentTypeKeys : ~ ContainsLit(s, k \o <<":", " ">> \o Lit_multipart)

AllLower(s) == \A i \in 1..Len(s) : s[i] \notin Upper

----------------------------------------------------------------------------
(* C1: for every well-formed plain document (a non-empty header block, a   *)
(* blank line, a non-empty body, no multipart content type) Message::new   *)
(* succeeds with lowercased header keys and exactly one section, which is  *)
(* Plain and holds the raw body text.                                      *)
C1_PlainDocumentParses ==
  (call = "Message" /\ WellFormedPlain(raw)) =>
     /\ message.tag = "Ok"
     /\ \A n \in 1..Len(message.val.headers) : AllLower(message.val.headers[n].key)
     /\ Len(message.val.sections) = 1
     /\ message.val.sections[1] = Plain(BodyOf(raw))

----------------------------------------------------------------------------
(* C2: Message::new fails with InvalidString, returning no Message, on the *)
(* empty string and on every text that is not classified multipart and has *)
(* no blank-line separator or has an empty fragment on either side of it.  *)
Unseparated(s) ==
  \/ s = <<>>
  \/ ~ HasSeparator(s)
  \/ HeaderBlockOf(s) = <<>>
  \/ BodyOf(s) = <<>>

C2_UnseparatedIsInvalidString ==
  (call = "Message" /\ ~ is_multipart(raw) /\ Unseparated(raw)) =>
     message = Err("InvalidString", NoMessage)

\* a text with a separator and nothing after it was refused
C2_Witness ==
  /\ call = "Message"
  /\ HasSeparator(raw)
  /\ HeaderBlockOf(raw) # <<>>
  /\ BodyOf(raw) = <<>>
  /\ message = Err("InvalidString", NoMessage)

----------------------------------------------------------------------------
(* C6: parse_headers returns one Header per recognized key, in order of    *)
(* occurrence, with the key lowercased and with the value equal to all the *)
(* text strictly between the key's colon and the start of the next         *)
(* recognized key (or the end of the block), trimmed.                      *)
DocumentedValue(s, idx, n) ==
  trim(SubSeq(s, idx[n][2] + 1,
              IF n < Len(idx) THEN idx[n + 1][1] - 1 ELSE Len(s)))

C6_HeadersAsDocumented ==
  call = "Headers" =>
     LET idx == header_indices(raw)
     IN  /\ headers.tag = "Ok"
         /\ Len(headers.val) = Len(idx)
         /\ \A n \in 1..Len(idx) :
               /\ headers.val[n].key =
                     to_lowercase(SubSeq(raw, idx[n][1], idx[n][2] - 1))
               /\ headers.val[n].value = DocumentedValue(raw, idx, n)

----------------------------------------------------------------------------
(* C7: header folding is idempotent: when parse_headers succeeds with H,   *)
(* parsing the text of H rendered as "key: value" lines joined by line     *)
(* feeds yields H again.                                                   *)
C7_FoldingIdempotent ==
  (call = "Headers" /\ headers.tag = "Ok") =>
     parse_headers(Headers_to_string(headers.val)) = headers

\* two or more headers, one of them folded over two lines, parsed from a
\* text that is not its own rendering
C7_Witness ==
  /\ call = "Headers"
  /\ headers.tag = "Ok"
  /\ Len(headers.val) >= 2
  /\ \E n \in 1..Len(headers.val) : ContainsLit(headers.val[n].value, <<"\n">>)
  /\ Headers_to_string(headers.val) # raw

----------------------------------------------------------------------------
(* C8: a header block with no recognized key gives an empty header         *)
(* sequence and never an error; so a message or a section whose header     *)
(* fragment has no recognized key still parses, with an empty header list. *)
NoRecognizedKey(s) ==
  ~ \E i \in 1..Len(s) : \E j \in (i + 1)..Len(s) :
       /\ i = 1 \/ s[i - 1] = "\n"
       /\ s[j] = ":"
       /\ \A k \in i..(j - 1) : s[k] \in KeyChar

C8_NoKeyNoHeaders ==
  /\ (call = "Headers" /\ NoRecognizedKey(raw)) => headers = Ok(<<>>)
  /\ ( /\ call = "Message"
       /\ ~ is_multipart(raw)
       /\ ~ Unseparated(raw)
       /\ NoRecognizedKey(HeaderBlockOf(raw))
       /\ Section_new(BodyOf(raw)).tag = "Ok" ) =>
        (message.tag = "Ok" /\ message.val.headers = <<>>)
  /\ ( /\ call = "Section"
       /\ raw # Lit_terminator
       /\ has_headers(raw)
       /\ ~ has_boundary(raw)
       /\ HasSeparator(raw)
       /\ NoRecognizedKey(HeaderBlockOf(raw))
       /\ Section_new(BodyOf(raw)).tag = "Ok" ) =>
        ( /\ section.tag = "Ok"
          /\ section.val.kind = "Multipart"
          /\ section.val.headers = <<>> )

\* a section whose header fragment holds a colon but no recognized key
C8_Witness ==
  /\ call = "Section"
  /\ has_headers(raw)
  /\ HasSeparator(raw)
  /\ NoRecognizedKey(HeaderBlockOf(raw))
  /\ ContainsLit(HeaderBlockOf(raw), <<":">>)
  /\ section.tag = "Ok"
  /\ section.val.kind = "Multipart"
  /\ section.val.headers = <<>>

----------------------------------------------------------------------------
(* C9: the section parser is total: for every text it returns a Section or *)
(* the parse error of an unextractable boundary, and never aborts.         *)
C9_SectionParserTotal ==
  call = "Section" =>
     \/ section.tag = "Ok" /\ section.val.kind \in {"Plain", "Multipart", "Empty"}
     \/ section.tag = "Err" /\ section.err = "ParseError"

----------------------------------------------------------------------------
(* C3: for a document classified multipart with extracted boundary B, the  *)
(* top-level sections of the returned Message are, one for one and in      *)
(* order, the section parser's results on the fragments of the document    *)
(* split on "--B", the first fragment (the header block) left out and the  *)
(* trailing terminator fragment included; that last section is Empty when  *)
(* the fragment is exactly "--\n".                                         *)
OccurrencesOf(s, pat) == {i \in 1..Len(s) : StartsAt(s, i, pat)}

\* the texts between the occurrences of a delimiter that cannot overlap itself
FragmentsOf(s, pat) ==
  LET occ == SortedSeq(OccurrencesOf(s, pat))
      n == Len(occ)
  IN  [k \in 1..(n + 1) |->
         SubSeq(s, IF k = 1 THEN 1 ELSE occ[k - 1] + Len(pat),
                   IF k = n + 1 THEN Len(s) ELSE occ[k] - 1)]

----------------------------------------------------------------------------
(* C10: in the section parser a detected boundary with no extractable      *)
(* quoted value is ParseError; in the message parser a document classified *)
(* multipart with no quoted boundary value anywhere is InvalidString;      *)
(* Unknown is returned by no parse path.                                   *)
NoQuotedBoundary(s) ==
  ~ \E i \in 1..Len(s) :
       /\ \E k \in BoundaryKeys : StartsAt(s, i, k \o <<"=">>)
       /\ i + 9 <= Len(s)
       /\ s[i + 9] \in QuoteChar
       /\ \E e \in (i + 11)..Len(s) :
             /\ s[e] \in QuoteChar
             /\ \A k \in (i + 10)..(e - 1) : s[k] \in PrintChar

C10_BoundaryErrors ==
  /\ ( /\ call = "Section"
       /\ raw # Lit_terminator
       /\ has_headers(raw)
       /\ has_boundary(raw)
       /\ NoQuotedBoundary(raw) ) => section = Err("ParseError", NoSection)
  /\ (call = "Message" /\ is_multipart(raw) /\ NoQuotedBoundary(raw)) =>
        message = Err("InvalidString", NoMessage)
  /\ message.err \in {"None", "InvalidString", "ParseError"}
  /\ section.err \in {"None", "InvalidString", "ParseError"}

\* a multipart document whose boundary is declared without quotes was refused
C10_Witness ==
  /\ call = "Message"
  /\ is_multipart(raw)
  /\ has_boundary(raw)
  /\ NoQuotedBoundary(raw)
  /\ Len(raw) > Len(Head_unquoted)
  /\ message = Err("InvalidString", NoMessage)

----------------------------------------------------------------------------
(* C4, as stated: the document of the multipart scenario (a multipart/mixed *)
(* header with boundary "X" and two "--X"-delimited parts, each a          *)
(* content-type: text/plain header, a blank line and a body) parses to a   *)
(* Message with exactly 2 sections, each a Multipart with exactly one      *)
(* child, that child a Plain body.                                         *)
SinglePlainChild(sec) ==
  /\ sec.kind = "Multipart"
  /\ Len(sec.body) = 1
  /\ sec.body[1].kind = "Plain"

EndsWith(s, t) == Len(s) >= Len(t) /\ SubSeq(s, Len(s) - Len(t) + 1, Len(s)) = t

Closed(s) ==
  \/ EndsWith(s, <<"-", "-", "X", "-", "-">>)
  \/ EndsWith(s, <<"-", "-", "X", "-", "-", "\n">>)

----------------------------------------------------------------------------
IsPrefix(p, t) == Len(p) <= Len(t) /\ SubSeq(t, 1, Len(p)) = p

\* used lists the boundaries innermost first
NoOuterPrefix ==
  \A i \in 1..Len(used) : \A j \in (i + 1)..Len(used) : ~ IsPrefix(used[j], used[i])

RECURSIVE DepthOf(_)
DepthOf(sec) ==
  IF sec.kind # "Multipart" \/ Len(sec.body) = 0 THEN 0
  ELSE 1 + DepthOf(sec.body[CHOOSE i \in 1..Len(sec.body) :
                      \A j \in 1..Len(sec.body) :
                         DepthOf(sec.body[j]) <= DepthOf(sec.body[i])])

----------------------------------------------------------------------------
(* Callers of documents with carriage returns: the text is assembled from  *)
(* header lines, body text, and the line endings LF, CR and CR LF.         *)

Piece_cr == <<"\r">>

Piece_crlf == <<"\r", "\n">>

SeparatorPieces == {Piece_To, Piece_ct, Piece_b, Piece_nl, Piece_cr, Piece_crlf}

AppendSeparator == AppendPiece(SeparatorPieces)

NextSeparator == AppendSeparator \/ CallMessageNew \/ CallSectionNew

SpecSeparator == Start /\ [][NextSeparator]_vars

\* a line-break character: a newline or a carriage return
BreakChar == {"\n", "\r"}

\* offsets at which two consecutive line-break characters start
BreakRunStarts(s) ==
  {i \in 1..(Len(s) - 1) : s[i] \in BreakChar /\ s[i + 1] \in BreakChar}

HasBreakRun(s) == BreakRunStarts(s) # {}

\* the text before the first run of two or more line-break characters
BeforeBreakRun(s) == SubSeq(s, 1, SetMin(BreakRunStarts(s)) - 1)

\* the text after that run
AfterBreakRun(s) ==
  LET i == SetMin(BreakRunStarts(s))
      rest == {j \in i..Len(s) : s[j] \notin BreakChar}
  IN  IF rest = {} THEN <<>> ELSE Tail_from(s, SetMin(rest))

----------------------------------------------------------------------------
(* C11: header/body separation, in the plain path of Message::new and in   *)
(* the flat header+body path of Section::new, splits the text at the first *)
(* run of two or more consecutive characters each a newline or a carriage  *)
(* return (CR LF CR LF included): the text before the run is the header    *)
(* block and the text after the run is the body.                           *)
C11_SplitAtFirstBreakRun ==
  /\ ( /\ call = "Message"
       /\ ~ is_multipart(raw)
       /\ HasBreakRun(raw)
       /\ BeforeBreakRun(raw) # <<>>
       /\ AfterBreakRun(raw) # <<>>
       /\ parse_headers(BeforeBreakRun(raw)).tag = "Ok"
       /\ Section_new(AfterBreakRun(raw)).tag = "Ok" ) =>
        message = Ok(Message(parse_headers(BeforeBreakRun(raw)).val,
                             <<Section_new(AfterBreakRun(raw)).val>>))
  /\ ( /\ call = "Section"
       /\ raw # Lit_terminator
       /\ ~ Window_panics(raw)
       /\ has_headers(raw)
       /\ ~ has_boundary(raw)
       /\ HasBreakRun(raw)
       /\ parse_headers(BeforeBreakRun(raw)).tag = "Ok"
       /\ Section_new(AfterBreakRun(raw)).tag = "Ok" ) =>
        section = Ok(Multipart(parse_headers(BeforeBreakRun(raw)).val,
                               <<Section_new(AfterBreakRun(raw)).val>>))

----------------------------------------------------------------------------
(* Callers of the two detectors: the text is assembled from content-type   *)
(* keys and boundary assignments in several spellings, spaces, line feeds  *)
(* and other text, and handed to has_headers or to has_boundary.           *)

\* Section::has_headers as the caller sees it: Ok(bool), or the panic of the
\* window slice
has_headers_result(raw_message) ==
  IF Window_panics(raw_message) THEN Panic(FALSE) ELSE Ok(has_headers(raw_message))

\* Section::has_boundary as the caller sees it
has_boundary_result(raw_message) ==
  IF Window_panics(raw_message) THEN Panic(FALSE) ELSE Ok(has_boundary(raw_message))

CallHasHeaders ==
  /\ pc = "build"
  /\ pc' = "done"
  /\ call' = "has_headers"
  /\ detected' = has_headers_result(raw)
  /\ UNCHANGED <<raw, pieces, message, section, headers, expect, used>>

CallHasBoundary ==
  /\ pc = "build"
  /\ pc' = "done"
  /\ call' = "has_boundary"
  /\ detected' = has_boundary_result(raw)
  /\ UNCHANGED <<raw, pieces, message, section, headers, expect, used>>

Key_lower == Lit_content_type \o <<":">>

Key_upper == <<"C","O","N","T","E","N","T","-","T","Y","P","E",":">>

Assign_lower == Lit_boundary \o <<"=">>

Assign_upper == <<"B","O","U","N","D","A","R","Y","=">>

DetectPieces ==
  {Key_lower, Key_upper, Assign_lower, Assign_upper, Piece_sp, Piece_b, Piece_nl}

AppendDetect == AppendPiece(DetectPieces)

NextDetect == AppendDetect \/ CallHasHeaders \/ CallHasBoundary

SpecDetect == Start /\ [][NextDetect]_vars

\* the literal lit, in any mix of upper and lower case, occurs in s with a
\* value after it: at least one more character on the same line
ContainsAnyCase(s, lit) ==
  \E i \in 1..(Len(s) - Len(lit)) :
     /\ to_lowercase(SubSeq(s, i, i + Len(lit) - 1)) = lit
     /\ s[i + Len(lit)] # "\n"

\* the first 3000 units of the text, all of it when it is shorter
ScannedWindow(s) == SubSeq(s, 1, IF Len(s) > 3000 THEN 3000 ELSE Len(s))

----------------------------------------------------------------------------
(* C12: has_headers returns true if and only if a "content-type:" key, in  *)
(* any mix of upper and lower case letters, appears within the scanned     *)
(* window of the text (the key being followed by a space and a value).     *)
C12_HasHeadersAnyCase ==
  (call = "has_headers" /\ detected.tag = "Ok") =>
     (detected.val <=> ContainsAnyCase(ScannedWindow(raw), Key_lower \o <<" ">>))

----------------------------------------------------------------------------
(* C13: has_boundary returns true if and only if a "boundary=" assignment, *)
(* in any letter case, appears within the scanned window of the text (the  *)
(* assignment being the name, the equals sign and a value).                *)
C13_HasBoundaryAnyCase ==
  (call = "has_boundary" /\ detected.tag = "Ok") =>
     (detected.val <=> ContainsAnyCase(ScannedWindow(raw), Assign_lower))

----------------------------------------------------------------------------
(* C14: in the nested-multipart branch of Section::new, with the text      *)
(* split on "--<boundary>" into the fragments f0..fn, f0 is parsed as the  *)
(* local header block, the last fragment fn is dropped, and the children   *)
(* of the returned Multipart are exactly the results of Section::new on    *)
(* f1..f(n-1), in order: as many children as delimiter occurrences minus   *)
(* one.                                                                    *)
NestedBranch(s) ==
  /\ s # Lit_terminator
  /\ ~ Window_panics(s)
  /\ has_headers(s)
  /\ has_boundary(s)
  /\ RE_capture_boundary(s) # <<>>

\* what the claim says of a text s that takes the nested branch and gave the
\* result r
ChildrenAreInnerFragments(s, r) ==
  LET delim == <<"-", "-">> \o RE_capture_boundary(s)
      F == FragmentsOf(s, delim)
      parsed == /\ parse_headers(F[1]).tag = "Ok"
                /\ \A k \in 2..(Len(F) - 1) : Section_new(F[k]).tag = "Ok"
  IN  /\ r.tag = "Ok" <=> parsed
      /\ r.tag = "Ok" =>
            /\ r.val.kind = "Multipart"
            /\ r.val.headers = parse_headers(F[1]).val
            /\ Len(r.val.body) = Cardinality(OccurrencesOf(s, delim)) - 1
            /\ \A k \in 2..(Len(F) - 1) : r.val.body[k - 1] = Section_new(F[k]).val

C14_ChildrenAreInnerFragments ==
  (call = "Section" /\ NestedBranch(raw)) => ChildrenAreInnerFragments(raw, section)

----------------------------------------------------------------------------
(* Callers of long sections: the text is empty, or it is body text (after  *)
(* a part header or not) that ends within three bytes of the 3000-byte     *)
(* window; then a few pieces are appended: body text, a character that is  *)
(* not ASCII, a content-type header, two dashes, line endings.             *)

\* the pieces appended after the start of the text, at most
MaxTail == 3

\* n bytes of body text
Pad(n) == [i \in 1..n |-> "."]

\* a part header and the blank line after it
Piece_head == Piece_ct \o Piece_blank

\* the lengths the text is filled up to: the window less 2, less 1, the window
PadTo == (WindowLen - 2)..WindowLen

LongStarts(H) == {h \o Pad(n - Len(h)) : h \in H, n \in PadTo}

StartLong(H) ==
  /\ raw \in {<<>>} \cup LongStarts(H)
  /\ pieces = 0
  /\ pc = "build"
  /\ call = "None"
  /\ message = NotCalled(NoMessage)
  /\ section = NotCalled(NoSection)
  /\ headers = NotCalled(<<>>)
  /\ expect = <<>>
  /\ used = <<>>
  /\ detected = NotCalled(FALSE)

AppendTail(S) ==
  /\ pc = "build"
  /\ pieces < MaxTail
  /\ \E p \in S : raw' = raw \o p
  /\ pieces' = pieces + 1
  /\ UNCHANGED <<pc, call, message, section, headers, expect, used, detected>>

LeftoverPieces == {Piece_b, WideChar, Piece_ct, Piece_dashes, Piece_nl, Piece_cr}

AppendLeftover == AppendTail(LeftoverPieces)

NextLeftover == AppendLeftover \/ CallSectionNew

StartLeftover == StartLong({<<>>})

SpecLeftover == StartLeftover /\ [][NextLeftover]_vars

----------------------------------------------------------------------------
(* C15: Section::new returns Empty if and only if its input is exactly     *)
(* "--\n"; every other input in which no content-type header is detected   *)
(* ("--", "--\r\n" and the empty string among them) comes back as Plain    *)
(* wrapping the bytes of the input verbatim, untrimmed.                    *)
HeaderDetected(s) == has_headers_result(s) = Ok(TRUE)

C15_EmptyOnlyForTerminator ==
  call = "Section" =>
     /\ section = Ok(Empty) <=> raw = Lit_terminator
     /\ (raw # Lit_terminator /\ ~ HeaderDetected(raw)) => section = Ok(Plain(raw))

----------------------------------------------------------------------------
(* The calls of Section::new that a call of Section::new makes.  A loop    *)
(* over fragments calls Section::new on each in turn and returns at the    *)
(* first failure; the texts listed are those the loop is to call it on.    *)

\* the flat branch calling Section::new on the text it was given, the header
\* not cut off
recursive_calls_unsplit(raw_section) ==
  IF raw_section = Lit_terminator \/ Window_panics(raw_section)
     \/ ~ has_headers(raw_section)
  THEN <<>>
  ELSE IF has_boundary(raw_section)
  THEN LET boundary == RE_capture_boundary(raw_section)
           raw_sections == split(raw_section, <<"-", "-">> \o boundary)
       IN  IF Len(boundary) = 0 THEN <<>>
           ELSE IF parse_headers(raw_sections[1]).tag # "Ok" THEN <<>>
           ELSE IF Len(raw_sections) < 2 THEN <<>>
           ELSE SubSeq(raw_sections, 2, Len(raw_sections) - 1)
  ELSE LET splitted == RE_blank_splitn2(raw_section)
       IN  IF parse_headers(splitted[1]).tag # "Ok" THEN <<>>
           ELSE IF Len(splitted) < 2 THEN <<>>
           ELSE <<raw_section>>

\* the arguments of the calls Section::new(&section) and Section::new(&body)
\* that Section::parse_multipart makes for the text raw_section, in order
recursive_calls(raw_section) ==
  IF raw_section = Lit_terminator \/ Window_panics(raw_section)
     \/ ~ has_headers(raw_section)
  THEN <<>>
  ELSE IF has_boundary(raw_section)
  THEN LET boundary == RE_capture_boundary(raw_section)
           raw_sections == split(raw_section, <<"-", "-">> \o boundary)
       IN  IF Len(boundary) = 0 THEN <<>>
           ELSE IF parse_headers(raw_sections[1]).tag # "Ok" THEN <<>>
           ELSE IF Len(raw_sections) < 2 THEN <<>>
           ELSE SubSeq(raw_sections, 2, Len(raw_sections) - 1)
  ELSE LET splitted == RE_blank_splitn2(raw_section)
       IN  IF parse_headers(splitted[1]).tag # "Ok" THEN <<>>
           ELSE IF Len(splitted) < 2 THEN <<>>
           ELSE <<splitted[2]>>

\* the arguments of the calls of Section::new that Message::new makes
message_calls(raw_message) ==
  IF is_multipart(raw_message)
  THEN LET b == RE_capture_boundary(raw_message)
           raw_parts == split(raw_message, <<"-", "-">> \o b)
       IN  IF Len(b) = 0 THEN <<>>
           ELSE IF parse_headers(raw_parts[1]).tag # "Ok" THEN <<>>
           ELSE Tail_from(raw_parts, 2)
  ELSE LET splitted == RE_blank_splitn2(raw_message)
       IN  IF Len(splitted) # 2 \/ Len(splitted[1]) = 0 \/ Len(splitted[2]) = 0
           THEN <<>>
           ELSE IF parse_headers(splitted[1]).tag # "Ok" THEN <<>>
           ELSE <<splitted[2]>>

\* every pair of a text and a text its call recurses on, in the calls that
\* start from Section::new(s); a call on a text that is not shorter is
\* listed and not followed
RECURSIVE CallTree(_)
CallTree(s) ==
  LET cs == recursive_calls(s)
  IN  {<<s, cs[i]>> : i \in 1..Len(cs)}
        \cup UNION {CallTree(cs[i]) : i \in {j \in 1..Len(cs) : Len(cs[j]) < Len(s)}}

\* the number of calls nested inside the call Section::new(s)
RECURSIVE RecursionDepth(_)
RecursionDepth(s) ==
  LET cs == recursive_calls(s)
      below == {RecursionDepth(cs[i]) : i \in {j \in 1..Len(cs) : Len(cs[j]) < Len(s)}}
  IN  IF Len(cs) = 0 THEN 0
      ELSE IF below = {} THEN 1
      ELSE 1 + (CHOOSE d \in below : \A e \in below : e <= d)

----------------------------------------------------------------------------
(* C16: every recursive call of Section::new is made on a strict substring *)
(* (a strictly shorter text) of the text of the call that makes it, in the *)
(* nested-multipart branch and in the flat header+body branch; so for      *)
(* every input Message::new terminates and the depth of its recursion is   *)
(* at most the length of the input.                                        *)
StrictSubstring(c, p) == Len(c) < Len(p) /\ (c = <<>> \/ FindFrom(p, 1, c) # 0)

ShrinkingCalls(s) ==
  \A pair \in CallTree(s) : StrictSubstring(pair[2], pair[1])

C16_RecursionShrinks ==
  /\ call = "Section" =>
        /\ section.tag \in {"Ok", "Err", "Panic"}
        /\ ShrinkingCalls(raw)
        /\ RecursionDepth(raw) <= Len(raw)
        /\ (section.tag = "Ok" /\ section.val.kind = "Multipart") =>
              LET cs == recursive_calls(raw)
              IN  /\ Len(section.val.body) = Len(cs)
                  /\ \A i \in 1..Len(cs) : Ok(section.val.body[i]) = Section_new(cs[i])
  /\ call = "Message" =>
        /\ message.tag \in {"Ok", "Err", "Panic"}
        /\ LET cs == message_calls(raw)
           IN  \A i \in 1..Len(cs) :
                  /\ StrictSubstring(cs[i], raw)
                  /\ ShrinkingCalls(cs[i])
                  /\ 1 + RecursionDepth(cs[i]) <= Len(raw)

\* a section parsed through four nested-multipart calls and a flat call
C16_Witness ==
  /\ call = "Section"
  /\ section.tag = "Ok"
  /\ RecursionDepth(raw) = 5
  /\ \E pair \in CallTree(raw) : has_headers(pair[1]) /\ ~ has_boundary(pair[1])
  /\ \E pair \in CallTree(raw) : has_headers(pair[1]) /\ has_boundary(pair[1])

----------------------------------------------------------------------------
(* Callers of long sections and documents with headers around the window:  *)
(* the text starts as above and goes on with body text, a character that   *)
(* is not ASCII, a content-type header, a boundary declaration, a          *)
(* delimiter, or a multipart content-type header with its boundary.        *)

\* boundary="X"
Piece_decl == Lit_boundary \o <<"=", "\"", "X", "\"">>

WindowPieces == {Piece_b, WideChar, Piece_ct, Piece_decl, Piece_delim, Head_quoted}

AppendWindow == AppendTail(WindowPieces)

NextWindow == AppendWindow \/ CallSectionNew \/ CallMessageNew

StartWindow == StartLong({<<>>, Piece_head})

SpecWindow == StartWindow /\ [][NextWindow]_vars

\* the texts of lits occur in s, the first occurrence starting after the
\* first 3000 units
FirstStartsAfterWindow(s, lits) ==
  LET occ == {i \in 1..Len(s) : \E lit \in lits : StartsAt(s, i, lit)}
  IN  occ # {} /\ SetMin(occ) > 3000

ContentTypeTexts == {k \o <<":", " ">> : k \in ContentTypeKeys}

BoundaryTexts == {k \o <<"=">> : k \in BoundaryKeys}

\* a content-type header whose value begins with multipart, anywhere in s
MultipartAnywhere(s) ==
  \E i \in 1..Len(s) : \E k \in ContentTypeKeys :
     /\ StartsAt(s, i, k \o <<":", " ">> \o Lit_multipart)
     /\ i + Len(k) + 2 + Len(Lit_multipart) <= Len(s)
     /\ s[i + Len(k) + 2 + Len(Lit_multipart)] # "\n"

----------------------------------------------------------------------------
(* C17: has_headers and has_boundary look at the first 3000 units of the   *)
(* section text only: a section whose first "content-type: " starts after  *)
(* the window comes back as Plain of the whole text; a section with a      *)
(* header in the window whose first "boundary=" starts after the window is *)
(* parsed by the flat header+body branch and not split on its boundary;    *)
(* the multipart classification of Message::new scans the full document.   *)
C17_WindowOfDetectors ==
  /\ (call = "Section" /\ FirstStartsAfterWindow(raw, ContentTypeTexts)) =>
        section = Ok(Plain(raw))
  /\ ( /\ call = "Section"
       /\ RE_headers_is_match(ScannedWindow(raw))
       /\ FirstStartsAfterWindow(raw, BoundaryTexts)
       /\ HasSeparator(raw)
       /\ parse_headers(HeaderBlockOf(raw)).tag = "Ok"
       /\ Section_new(BodyOf(raw)).tag = "Ok" ) =>
        section = Ok(Multipart(parse_headers(HeaderBlockOf(raw)).val,
                               <<Section_new(BodyOf(raw)).val>>))
  /\ call = "Message" =>
        message = IF MultipartAnywhere(raw) THEN Message_parse_multipart(raw)
                  ELSE Message_parse_plain(raw)

----------------------------------------------------------------------------
(* C18: in parse_headers every slice taken from the header block is within *)
(* range: for every recognized key with its colon at offset c, the value   *)
(* start c + 2 is at most the start of the next recognized key, and for    *)
(* the last key c + 2 is at most the length of the block; so no header     *)
(* block, one that ends directly after a key's colon included, makes       *)
(* parse_headers fail.                                                     *)
SlicesInRange(s) ==
  LET idx == header_indices(s)
      \* the 0-based offsets of the source
      start(n) == idx[n][1] - 1
      colon(n) == idx[n][2] - 1
  IN  \A n \in 1..Len(idx) :
         IF n < Len(idx) THEN colon(n) + 2 <= start(n + 1)
         ELSE colon(n) + 2 <= Len(s)

C18_HeaderSlicesInRange ==
  call = "Headers" => (SlicesInRange(raw) /\ headers.tag = "Ok")

=============================================================================
